---- MODULE Spec2Model ----
(***************************************************************************)
(* State-machine model of the askdevs server actions (answer.actions and   *)
(* question.actions) over the document store: the vote handlers            *)
(* voteQuestion / voteAnswer, the update query they hand to the store, and *)
(* the create / edit / delete / listing handlers that share the documents. *)
(*                                                                         *)
(* A handler is an async function: it runs atomically between two awaits,  *)
(* and every awaited store call is one step of the model.  Each running    *)
(* call occupies a slot; a slot holds the call's parameters, its position  *)
(* (pc) and, once finished, what the caller gets back.                     *)
(*                                                                         *)
(* The client side is modelled next to them: the pages the listing         *)
(* functions return, the renders of the LeftLinks sidebar over the shared  *)
(* sidebarLinks array, and the question form's onSubmit.                   *)
(***************************************************************************)
EXTENDS Integers, Sequences, FiniteSets, TLC

\* ------------------------------------------------------------------ bounds
NumUsers == 2

Users == 1..NumUsers
\* The calls that can be running at once: the claims about concurrency speak
\* of two.
Slots == {"r1", "r2"}
QIds == {"q1", "q2"}
AIds == {"a1", "a2"}
Actions == {"upvote", "downvote"}

VARIABLES
  questions,   \* the Question collection: a function id -> document
  answers,     \* the Answer collection: a function id -> document
  tags,        \* the Tag collection: a function tag name -> ids of its questions
  used,        \* the document ids the store has handed out
  slots,       \* the running / finished handler calls
  last,        \* history: the vote the store applied last, and the sets before it
  base,        \* history: the collections when the running calls' callers last had none running
  order,       \* history: the slots whose store write was applied since then, in order
  matching,    \* the documents a listing's filter matches, in the listing's sort order
  listing,     \* the listing call made last and what it returned
  sidebarLinks,  \* the routes of the module-level sidebarLinks array
  authUserId,  \* useAuth().userId: the signed-in user, "none" when signed out
  pathName,    \* usePathname()
  rendered,    \* what the last render of LeftLinks returned
  isSubmitting,  \* the question form's isSubmitting state
  submission,  \* the question form's onSubmit call: its type and position
  navigation   \* the routes pushed to the router, in order

store == <<questions, answers, tags, used>>
history == <<last, base, order>>
client == <<matching, listing, sidebarLinks, authUserId, pathName, rendered,
            isSubmitting, submission, navigation>>
server == <<questions, answers, tags, used, slots, last, base, order>>
listVars == <<matching, listing>>
linkVars == <<sidebarLinks, authUserId, pathName, rendered>>
formVars == <<isSubmitting, submission, navigation>>
vars == <<questions, answers, tags, used, slots, last, base, order, client>>

\* ------------------------------------------------------------- documents
\* A Question document as Question.create({title, content, author}) leaves it:
\* the voter arrays and the answers array start empty.
NewQuestion(title) ==
  [title |-> title, upvotes |-> {}, downvotes |-> {}, answers |-> {}, tags |-> {}]

\* An Answer document as Answer.create({content, author, question}) leaves it.
NewAnswer(questionId) ==
  [question |-> questionId, upvotes |-> {}, downvotes |-> {}]

\* A collection with no document.
EmptyColl == [id \in {} |-> id]

Idle == [op |-> "idle", pc |-> "idle"]
NoVote ==
  [target |-> "none", userId |-> 0, action |-> "none", fresh |-> FALSE,
   novote |-> FALSE, upvotes |-> {}, downvotes |-> {}, after |-> "none"]

\* ---------------------------------------------------------- update query
NoOp == "none"
AddUser == "add"
RemoveUser == "remove"

UpdateQuery(userId, upOp, downOp) ==
  [user |-> userId, upvotes |-> upOp, downvotes |-> downOp]

\* Faulty variant: the switching rows add the user to both sets.
getUpdateQuery_addsBoth(userId, hasUpVoted, hasDownVoted, action) ==
  IF hasUpVoted \/ hasDownVoted
  THEN {UpdateQuery(userId, AddUser, AddUser)}
  ELSE {UpdateQuery(userId, IF action = "upvote" THEN AddUser ELSE NoOp,
                    IF action = "upvote" THEN NoOp ELSE AddUser)}

\* The rows of the case table, by (action, hasUpVoted, hasDownVoted).
CaseTable(userId, hasUpVoted, hasDownVoted, action) ==
  IF action = "upvote"
  THEN IF hasUpVoted THEN UpdateQuery(userId, RemoveUser, NoOp)
       ELSE IF hasDownVoted THEN UpdateQuery(userId, AddUser, RemoveUser)
       ELSE UpdateQuery(userId, AddUser, NoOp)
  ELSE IF hasDownVoted THEN UpdateQuery(userId, NoOp, RemoveUser)
       ELSE IF hasUpVoted THEN UpdateQuery(userId, RemoveUser, AddUser)
       ELSE UpdateQuery(userId, NoOp, AddUser)

\* What getUpdateQuery can return: the row of the case table for the six
\* inputs whose flags are not both true.  Both flags true is not validated
\* (the source treats it as unreachable): the call returns without an
\* error, with the update of whichever branch the flags fall into, or with
\* an empty update.
getUpdateQuery(userId, hasUpVoted, hasDownVoted, action) ==
  IF hasUpVoted /\ hasDownVoted
  THEN { CaseTable(userId, TRUE, FALSE, action),
         CaseTable(userId, FALSE, TRUE, action),
         CaseTable(userId, FALSE, FALSE, action),
         UpdateQuery(userId, NoOp, NoOp) }
  ELSE { CaseTable(userId, hasUpVoted, hasDownVoted, action) }

\* ------------------------------------------------------ store primitives
ApplyOp(set, op, userId) ==
  IF op = AddUser THEN set \cup {userId}
  ELSE IF op = RemoveUser THEN set \ {userId}
  ELSE set

\* One update document applied to one stored document: both fields change
\* together, in one step of the store.
UpdateDoc(doc, q) ==
  [doc EXCEPT !.upvotes = ApplyOp(@, q.upvotes, q.user),
              !.downvotes = ApplyOp(@, q.downvotes, q.user)]

\* The document with this id as it was when the running calls started.
BaseDoc(id) == IF id \in QIds THEN base[1][id] ELSE base[2][id]

\* Faulty variant: read-modify-write: the document written back is computed from the
\* copy read when the call's caller started, not from the stored one.
findByIdAndUpdate_stale(coll, id, q) ==
  IF id \in DOMAIN coll THEN [coll EXCEPT ![id] = UpdateDoc(BaseDoc(id), q)] ELSE coll

\* Model.findByIdAndUpdate(id, update): the update is applied by the store
\* to the document as it is stored at that moment; when no document has the
\* id the call resolves to null and changes nothing.
findByIdAndUpdate(coll, id, q) ==
  IF id \in DOMAIN coll THEN [coll EXCEPT ![id] = UpdateDoc(@, q)] ELSE coll

\* Faulty variant: the two fields are written by two store calls, one after the other.
StoreWrites_split(q) ==
  <<[q EXCEPT !.downvotes = NoOp], [q EXCEPT !.upvotes = NoOp]>>

\* The store calls a vote handler issues for its update query: a single
\* findByIdAndUpdate carrying the whole query.
StoreWrites(q) == <<q>>

\* ---------------------------------------------------------- vote handlers
VoteParams ==
  [userId : Users, hasUpVoted : BOOLEAN, hasDownVoted : BOOLEAN, action : Actions]

ValidVoteParams == {p \in VoteParams : ~(p.hasUpVoted /\ p.hasDownVoted)}

ConnectError == "connectToDB"
VoteQuestionError == "Error while trying to vote a question"
VoteAnswerError == "Error while trying to vote a answer"

\* A finished call: what the caller gets back (the call resolved, or it threw
\* the named error).
Finished(op, result, err) ==
  [op |-> op, pc |-> "done", result |-> result, err |-> err]

\* Faulty variant: the two flags are passed in each other's place.
voteQuestionQuery_swapped(p) ==
  getUpdateQuery(p.userId, p.hasDownVoted, p.hasUpVoted, p.action)

\* Faulty variant: hasUpVoted is not passed on.
voteQuestionQuery_dropsUpFlag(p) ==
  getUpdateQuery(p.userId, FALSE, p.hasDownVoted, p.action)

\* Faulty variant: the flags are not passed on.
voteAnswerQuery_noFlags(p) ==
  getUpdateQuery(p.userId, FALSE, FALSE, p.action)

\* voteQuestion, line 375: the update query for the call's parameters.
voteQuestionQuery(p) ==
  getUpdateQuery(p.userId, p.hasUpVoted, p.hasDownVoted, p.action)

\* voteAnswer, line 95.
voteAnswerQuery(p) ==
  getUpdateQuery(p.userId, p.hasUpVoted, p.hasDownVoted, p.action)

\* The locals of a vote call that has issued its query q to the store.
VoteCall(op, id, p, q) ==
  [op |-> op, pc |-> "update", id |-> id, userId |-> p.userId,
   hasUpVoted |-> p.hasUpVoted, hasDownVoted |-> p.hasDownVoted,
   action |-> p.action, query |-> q, writes |-> StoreWrites(q),
   result |-> "pending", err |-> "none"]

\* voteQuestion up to its second await: connectToDB (which may reject: the
\* error is rethrown to the caller), then the update query is computed and
\* findByIdAndUpdate is issued.
voteQuestion(r, id, p) ==
  /\ slots[r] = Idle
  /\ \/ \E q \in voteQuestionQuery(p) :
          slots' = [slots EXCEPT ![r] = VoteCall("voteQuestion", id, p, q)]
     \/ slots' = [slots EXCEPT ![r] = Finished("voteQuestion", "error", ConnectError)]
  /\ UNCHANGED store

\* voteQuestion from findByIdAndUpdate on: the store applies the update (or
\* throws, and the handler rethrows), then revalidatePath and the return.
voteQuestionUpdate(r) ==
  /\ slots[r].op = "voteQuestion" /\ slots[r].pc = "update"
  /\ \/ /\ questions' = findByIdAndUpdate(questions, slots[r].id, Head(slots[r].writes))
        /\ slots' = [slots EXCEPT ![r] =
             IF Len(slots[r].writes) = 1
             THEN Finished("voteQuestion", "ok", "none")
             ELSE [slots[r] EXCEPT !.writes = Tail(@)]]
     \/ /\ slots' = [slots EXCEPT ![r] = Finished("voteQuestion", "error", VoteQuestionError)]
        /\ UNCHANGED questions
  /\ UNCHANGED <<answers, tags, used>>

voteAnswer(r, id, p) ==
  /\ slots[r] = Idle
  /\ \/ \E q \in voteAnswerQuery(p) :
          slots' = [slots EXCEPT ![r] = VoteCall("voteAnswer", id, p, q)]
     \/ slots' = [slots EXCEPT ![r] = Finished("voteAnswer", "error", ConnectError)]
  /\ UNCHANGED store

voteAnswerUpdate(r) ==
  /\ slots[r].op = "voteAnswer" /\ slots[r].pc = "update"
  /\ \/ /\ answers' = findByIdAndUpdate(answers, slots[r].id, Head(slots[r].writes))
        /\ slots' = [slots EXCEPT ![r] =
             IF Len(slots[r].writes) = 1
             THEN Finished("voteAnswer", "ok", "none")
             ELSE [slots[r] EXCEPT !.writes = Tail(@)]]
     \/ /\ slots' = [slots EXCEPT ![r] = Finished("voteAnswer", "error", VoteAnswerError)]
        /\ UNCHANGED answers
  /\ UNCHANGED <<questions, tags, used>>

\* The caller takes the outcome of its call.
Return(r) ==
  /\ slots[r].pc = "done"
  /\ slots' = [slots EXCEPT ![r] = Idle]
  /\ UNCHANGED store

\* ------------------------------------------- create / edit / delete / list
Titles == {"t1", "t2"}
TagLists == {<<>>, <<"tag1">>}

CreateQuestionError == "Error raised while trying to create the question in the DB"
CreateTagsError == "Error raised while trying to create the tags in the DB"
EditQuestionError == "Error raised while trying to update the question"
QuestionNotFound == "Question not found"
SaveError == "save rejected"
CreateAnswerError == "Issue while trying to create a new answer: "
DeleteAnswerError == "Error while trying to delete an answer"
GetAnswersError == "Error while trying to fetch the answers for this question."

\* The id the store gives a created document: one no document has had.
NewId(ids) == IF ids \ used = {} THEN "none" ELSE CHOOSE id \in ids \ used : TRUE

\* A call that is at position pc with its locals.
Running(op, pc, locals) == [op |-> op, pc |-> pc] @@ locals

\* A handler's first await: connectToDB resolves and the call goes on to pc,
\* or it rejects and the error is rethrown to the caller.
Begin(r, op, pc, locals) ==
  /\ slots[r] = Idle
  /\ \/ slots' = [slots EXCEPT ![r] = Running(op, pc, locals)]
     \/ slots' = [slots EXCEPT ![r] = Finished(op, "error", ConnectError)]
  /\ UNCHANGED store

\* The awaited store call of slot r throws: the handler's catch rethrows.
Throws(r, err) ==
  /\ slots' = [slots EXCEPT ![r] = Finished(slots[r].op, "error", err)]
  /\ UNCHANGED store

At(r, op, pc) == slots[r].op = op /\ slots[r].pc = pc

\* createQuestion: connectToDB.
createQuestion(r, title, tagList) ==
  Begin(r, "createQuestion", "create", [title |-> title, tagList |-> tagList])

\* createQuestion: Question.create({title, content, author}) under a new id.
createQuestionCreate(r) ==
  /\ At(r, "createQuestion", "create")
  /\ \/ \E id \in {NewId(QIds)} :
          /\ QIds \ used # {}
          /\ questions' = (id :> NewQuestion(slots[r].title)) @@ questions
          /\ used' = used \cup {id}
          /\ slots' = [slots EXCEPT ![r] =
               Running("createQuestion", "tags",
                       [id |-> id, tagList |-> slots[r].tagList, tagIds |-> {}])]
          /\ UNCHANGED <<answers, tags>>
     \/ Throws(r, CreateQuestionError)

\* createQuestion: one turn of the loop over the tags: Tag.findOneAndUpdate
\* with upsert, which pushes the question's id to the tag's questions.
createQuestionTag(r) ==
  /\ At(r, "createQuestion", "tags") /\ slots[r].tagList # <<>>
  /\ \/ LET tag == Head(slots[r].tagList)
            old == IF tag \in DOMAIN tags THEN tags[tag] ELSE {}
        IN /\ tags' = (tag :> (old \cup {slots[r].id})) @@ tags
           /\ slots' = [slots EXCEPT ![r].tagList = Tail(@), ![r].tagIds = @ \cup {tag}]
           /\ UNCHANGED <<questions, answers, used>>
     \/ Throws(r, CreateTagsError)

\* The write of document.save() for a created question whose tags were
\* pushed: the modified path, tags, is set on the stored document.
createQuestionSaved(stored, tagIds) == [stored EXCEPT !.tags = @ \cup tagIds]

\* createQuestion after the loop: question.tags.push, question.save(),
\* revalidatePath and the return.
createQuestionSave(r) ==
  /\ At(r, "createQuestion", "tags") /\ slots[r].tagList = <<>>
  /\ questions' =
       IF slots[r].id \in DOMAIN questions
       THEN [questions EXCEPT ![slots[r].id] = createQuestionSaved(@, slots[r].tagIds)]
       ELSE questions
  /\ slots' = [slots EXCEPT ![r] = Finished("createQuestion", "ok", "none")]
  /\ UNCHANGED <<answers, tags, used>>

\* editQuestion: called (it does not call connectToDB).
editQuestion(r, questionId, title) ==
  /\ slots[r] = Idle
  /\ slots' = [slots EXCEPT ![r] =
       Running("editQuestion", "find", [id |-> questionId, title |-> title])]
  /\ UNCHANGED store

\* editQuestion: Question.findById, then title and content are set on the
\* document read and save() is called.
editQuestionFind(r) ==
  /\ At(r, "editQuestion", "find")
  /\ \/ /\ slots[r].id \in DOMAIN questions
        /\ slots' = [slots EXCEPT ![r] =
             Running("editQuestion", "save",
                     [id |-> slots[r].id,
                      question |-> [questions[slots[r].id] EXCEPT !.title = slots[r].title]])]
        /\ UNCHANGED store
     \/ /\ slots[r].id \notin DOMAIN questions
        /\ Throws(r, QuestionNotFound)
     \/ Throws(r, EditQuestionError)

\* Faulty variant: save() writes the whole document as it was read.
editQuestionSaved_whole(stored, question) == question

\* The write of document.save() for an edited question: the modified paths
\* (title, content) are set on the stored document.
editQuestionSaved(stored, question) == [stored EXCEPT !.title = question.title]

\* editQuestion: await question.save(), revalidatePath and the return.
editQuestionSave(r) ==
  /\ At(r, "editQuestion", "save")
  /\ \/ /\ slots[r].id \in DOMAIN questions
        /\ questions' = [questions EXCEPT ![slots[r].id] =
                           editQuestionSaved(@, slots[r].question)]
        /\ slots' = [slots EXCEPT ![r] = Finished("editQuestion", "ok", "none")]
        /\ UNCHANGED <<answers, tags, used>>
     \/ Throws(r, SaveError)

\* createAnswer: connectToDB.
createAnswer(r, questionId) ==
  Begin(r, "createAnswer", "create", [questionId |-> questionId])

\* createAnswer: Answer.create({content, author, question}) under a new id.
createAnswerCreate(r) ==
  /\ At(r, "createAnswer", "create")
  /\ \/ \E id \in {NewId(AIds)} :
          /\ AIds \ used # {}
          /\ answers' = (id :> NewAnswer(slots[r].questionId)) @@ answers
          /\ used' = used \cup {id}
          /\ slots' = [slots EXCEPT ![r] =
               Running("createAnswer", "push",
                       [questionId |-> slots[r].questionId, id |-> id])]
          /\ UNCHANGED <<questions, tags>>
     \/ Throws(r, CreateAnswerError)

\* createAnswer: Question.findByIdAndUpdate(questionId, {$push: {answers}}),
\* then revalidatePath and the return.
createAnswerPush(r) ==
  /\ At(r, "createAnswer", "push")
  /\ \/ /\ questions' =
             IF slots[r].questionId \in DOMAIN questions
             THEN [questions EXCEPT ![slots[r].questionId].answers = @ \cup {slots[r].id}]
             ELSE questions
        /\ slots' = [slots EXCEPT ![r] = Finished("createAnswer", "ok", "none")]
        /\ UNCHANGED <<answers, tags, used>>
     \/ Throws(r, CreateAnswerError)

\* deleteAnswer: connectToDB.
deleteAnswer(r, answerId) ==
  Begin(r, "deleteAnswer", "deleteOne", [id |-> answerId])

\* deleteAnswer: Answer.deleteOne({_id: answerId}).
deleteAnswerDeleteOne(r) ==
  /\ At(r, "deleteAnswer", "deleteOne")
  /\ \/ /\ answers' = [id \in DOMAIN answers \ {slots[r].id} |-> answers[id]]
        /\ slots' = [slots EXCEPT ![r].pc = "pull"]
        /\ UNCHANGED <<questions, tags, used>>
     \/ Throws(r, DeleteAnswerError)

\* deleteAnswer: Question.updateMany({answers}, {$pull: {answers}}).
deleteAnswerPull(r) ==
  /\ At(r, "deleteAnswer", "pull")
  /\ \/ /\ questions' = [id \in DOMAIN questions |->
             [questions[id] EXCEPT !.answers = @ \ {slots[r].id}]]
        /\ slots' = [slots EXCEPT ![r].pc = "interaction"]
        /\ UNCHANGED <<answers, tags, used>>
     \/ Throws(r, DeleteAnswerError)

\* deleteAnswer: Interaction.updateMany (a collection no vote set lives in),
\* then revalidatePath and the return.
deleteAnswerInteraction(r) ==
  /\ At(r, "deleteAnswer", "interaction")
  /\ \/ /\ slots' = [slots EXCEPT ![r] = Finished("deleteAnswer", "ok", "none")]
        /\ UNCHANGED store
     \/ Throws(r, DeleteAnswerError)

DeleteQuestionError == "Error while trying to delete a question"

\* deleteQuestion: connectToDB.
deleteQuestion(r, questionId) ==
  Begin(r, "deleteQuestion", "deleteOne", [id |-> questionId])

\* deleteQuestion: Question.deleteOne({_id: questionId}).
deleteQuestionDeleteOne(r) ==
  /\ At(r, "deleteQuestion", "deleteOne")
  /\ \/ /\ questions' = [id \in DOMAIN questions \ {slots[r].id} |-> questions[id]]
        /\ slots' = [slots EXCEPT ![r].pc = "deleteMany"]
        /\ UNCHANGED <<answers, tags, used>>
     \/ Throws(r, DeleteQuestionError)

\* deleteQuestion: Answer.deleteMany({question: questionId}).
deleteQuestionDeleteMany(r) ==
  /\ At(r, "deleteQuestion", "deleteMany")
  /\ \/ /\ answers' = [id \in {a \in DOMAIN answers : answers[a].question # slots[r].id}
                         |-> answers[id]]
        /\ slots' = [slots EXCEPT ![r].pc = "users"]
        /\ UNCHANGED <<questions, tags, used>>
     \/ Throws(r, DeleteQuestionError)

\* deleteQuestion: User.updateMany and Interaction.updateMany (collections
\* that hold no question and no answer).
deleteQuestionUsers(r) ==
  /\ At(r, "deleteQuestion", "users")
  /\ \/ /\ slots' = [slots EXCEPT ![r].pc = "tags"]
        /\ UNCHANGED store
     \/ Throws(r, DeleteQuestionError)

\* deleteQuestion: Tag.updateMany({questions}, {$pull: {questions}}), then
\* revalidatePath and the return.
deleteQuestionTags(r) ==
  /\ At(r, "deleteQuestion", "tags")
  /\ \/ /\ tags' = [t \in DOMAIN tags |-> tags[t] \ {slots[r].id}]
        /\ slots' = [slots EXCEPT ![r] = Finished("deleteQuestion", "ok", "none")]
        /\ UNCHANGED <<questions, answers, used>>
     \/ Throws(r, DeleteQuestionError)

\* The number of documents a find with skip and limit returns out of total.
PageSize(total, numberToSkip, limit) ==
  IF total <= numberToSkip THEN 0
  ELSE IF total - numberToSkip < limit THEN total - numberToSkip ELSE limit

AnswersOf(questionId) == {id \in DOMAIN answers : answers[id].question = questionId}

\* getQuestionAnswers: connectToDB; numberToSkip = (page - 1) * limit.
getQuestionAnswers(r, questionId, page, limit) ==
  Begin(r, "getQuestionAnswers", "find",
        [questionId |-> questionId, numberToSkip |-> (page - 1) * limit, limit |-> limit])

\* getQuestionAnswers: Answer.find({question}).skip().limit().sort().
getQuestionAnswersFind(r) ==
  /\ At(r, "getQuestionAnswers", "find")
  /\ \/ /\ slots' = [slots EXCEPT ![r] =
             Running("getQuestionAnswers", "count",
                     [questionId |-> slots[r].questionId,
                      numberToSkip |-> slots[r].numberToSkip,
                      found |-> PageSize(Cardinality(AnswersOf(slots[r].questionId)),
                                         slots[r].numberToSkip, slots[r].limit)])]
        /\ UNCHANGED store
     \/ Throws(r, GetAnswersError)

\* getQuestionAnswers: Answer.countDocuments({question}), isNext, the return.
getQuestionAnswersCount(r) ==
  /\ At(r, "getQuestionAnswers", "count")
  /\ \/ /\ slots' = [slots EXCEPT ![r] =
             [Finished("getQuestionAnswers", "ok", "none") EXCEPT !.result =
                IF Cardinality(AnswersOf(slots[r].questionId))
                     > slots[r].numberToSkip + slots[r].found
                THEN "isNext" ELSE "ok"]]
        /\ UNCHANGED store
     \/ Throws(r, GetAnswersError)

\* ---------------------------------------------------------------- listings
MaxDocs == 4
MaxPage == 3
MaxLimit == 2

Min(a, b) == IF a < b THEN a ELSE b

Range(seq) == {seq[i] : i \in 1..Len(seq)}

\* cursor.skip(n): the documents after the first n.
Skip(docs, n) == SubSeq(docs, n + 1, Len(docs))

\* cursor.limit(n): the first n documents; a limit of 0 is no limit.
Limit(docs, n) == IF n = 0 THEN docs ELSE SubSeq(docs, 1, Min(n, Len(docs)))

\* find(filter).skip(numberToSkip).limit(limit).sort(...) over the documents
\* the filter matches, given in the sort's order.
Find(docs, numberToSkip, limit) == Limit(Skip(docs, numberToSkip), limit)

\* What getQuestionAnswers returns for a page: the answers found and isNext.
getQuestionAnswersPage(docs, page, limit) ==
  LET numberToSkip == (page - 1) * limit
      found == Find(docs, numberToSkip, limit)
      totalAnswers == Len(docs)
  IN [items |-> found, isNext |-> totalAnswers > numberToSkip + Len(found)]

getUserAnswers(docs, page, limit) ==
  LET numberToSkip == (page - 1) * limit
      totalAnswers == Len(docs)
      found == Find(docs, numberToSkip, limit)
  IN [items |-> found, isNext |-> totalAnswers > numberToSkip + Len(found)]

getUserQuestions(docs, numberToSkip, limit) ==
  LET totalQuestions == Len(docs)
      found == Find(docs, numberToSkip, limit)
  IN [items |-> found, isNext |-> totalQuestions > numberToSkip + Len(found)]

\* User.findOne().populate("saved") with skip and a limit of limit + 1; all
\* the populated documents are returned.
getSavedQuestions(docs, numberToSkip, limit) ==
  LET saved == Find(docs, numberToSkip, limit + 1)
  IN [items |-> saved, isNext |-> Len(saved) > limit]

\* Tag.findOne().populate("questions") with skip and a limit of limit + 1.
getQuestionsByTag(docs, numberToSkip, limit) ==
  LET found == Find(docs, numberToSkip, limit + 1)
  IN [items |-> found, isNext |-> Len(found) > limit]

getAllQuestions(docs, numberToSkip, limit) ==
  LET totalQuestions == Len(docs)
      found == Find(docs, numberToSkip, limit)
  IN [items |-> found, isNext |-> totalQuestions > numberToSkip + Len(found)]

\* getQuestions: userId given, else clerkId given, else tagId given, else
\* all the questions.
Modes == {"user", "saved", "tag", "all"}

getQuestions(mode, docs, page, limit) ==
  LET numberToSkip == (page - 1) * limit
  IN CASE mode = "user" -> getUserQuestions(docs, numberToSkip, limit)
       [] mode = "saved" -> getSavedQuestions(docs, numberToSkip, limit)
       [] mode = "tag" -> getQuestionsByTag(docs, numberToSkip, limit)
       [] OTHER -> getAllQuestions(docs, numberToSkip, limit)

ListOps == {"getQuestionAnswers", "getUserAnswers"} \cup Modes

\* What the listing call op returns for a page.
ListResult(op, docs, page, limit) ==
  CASE op = "getQuestionAnswers" -> getQuestionAnswersPage(docs, page, limit)
    [] op = "getUserAnswers" -> getUserAnswers(docs, page, limit)
    [] OTHER -> getQuestions(op, docs, page, limit)

NoListing == [op |-> "none", page |-> 1, limit |-> 1, result |-> "none",
              items |-> <<>>, isNext |-> FALSE]

Listed(op, page, limit, result) ==
  [op |-> op, page |-> page, limit |-> limit, result |-> "ok",
   items |-> result.items, isNext |-> result.isNext]

ListFailed(op, page, limit) ==
  [op |-> op, page |-> page, limit |-> limit, result |-> "error",
   items |-> <<>>, isNext |-> FALSE]

\* What the caller of a listing call gets: its page, or the error of a
\* store call of it that threw.
Outcomes(op, page, limit, result) ==
  {Listed(op, page, limit, result), ListFailed(op, page, limit)}

\* getQuestionAnswers over the store as it is.
ListQuestionAnswers(page, limit) ==
  /\ listing' \in Outcomes("getQuestionAnswers", page, limit,
                           getQuestionAnswersPage(matching, page, limit))
  /\ UNCHANGED <<server, matching, linkVars, formVars>>

\* getUserAnswers over the store as it is.
ListUserAnswers(page, limit) ==
  /\ listing' \in Outcomes("getUserAnswers", page, limit,
                           getUserAnswers(matching, page, limit))
  /\ UNCHANGED <<server, matching, linkVars, formVars>>

\* getQuestions over the store as it is.
ListQuestions(mode, page, limit) ==
  /\ listing' \in Outcomes(mode, page, limit, getQuestions(mode, matching, page, limit))
  /\ UNCHANGED <<server, matching, linkVars, formVars>>

\* -------------------------------------------------------------- left links
\* A route is the sequence of its path segments: "/" is <<>>.
Home == <<>>
Community == <<"community">>
Profile == <<"profile">>
AuthUsers == {"A", "B"}
NoUser == "none"
Paths == {Home, Community, Profile \o <<"A">>, Profile \o <<"B">>}

\* pathName.includes(route): the route's text occurs in the path's.
Includes(path, route) ==
  \E i \in 0..(Len(path) - Len(route)) : SubSeq(path, i + 1, i + Len(route)) = route

\* isActive of a link: route.length > 1 holds of every route but "/".
IsActive(path, route) == path = route \/ (route # Home /\ Includes(path, route))

\* The route a link has after the callback of map has run on it.
RouteAfter(route, userId) ==
  IF route = Profile /\ userId # NoUser THEN route \o <<userId>> ELSE route

\* What the callback of map returns for a link: null, or the NavLink with
\* the link's route and isActive.
Null == [route |-> <<"null">>, isActive |-> FALSE]

Element(route, userId, path) ==
  IF route = Profile /\ userId = NoUser THEN Null
  ELSE [route |-> RouteAfter(route, userId), isActive |-> IsActive(path, route)]

NoRender == [forUser |-> NoUser, links |-> <<>>]

\* One render of LeftLinks: sidebarLinks.map over the module-level array,
\* whose profile link the callback overwrites.
LeftLinks ==
  /\ sidebarLinks' = [i \in 1..Len(sidebarLinks) |->
                        RouteAfter(sidebarLinks[i], authUserId)]
  /\ rendered' = [forUser |-> authUserId,
                  links |-> [i \in 1..Len(sidebarLinks) |->
                               Element(sidebarLinks[i], authUserId, pathName)]]
  /\ UNCHANGED <<server, listVars, authUserId, pathName, formVars>>

\* A user signs in (useAuth returns their id from now on).
SignIn(userId) ==
  /\ authUserId = NoUser
  /\ authUserId' = userId
  /\ UNCHANGED <<server, listVars, sidebarLinks, pathName, rendered, formVars>>

SignOut ==
  /\ authUserId # NoUser
  /\ authUserId' = NoUser
  /\ UNCHANGED <<server, listVars, sidebarLinks, pathName, rendered, formVars>>

\* The browser goes to another page (usePathname returns it from now on).
GoTo(path) ==
  /\ pathName # path
  /\ pathName' = path
  /\ UNCHANGED <<server, listVars, sidebarLinks, authUserId, rendered, formVars>>

\* ----------------------------------------------------------- question form
MaxNavigations == 6

FormTypes == {"edit", "create"}

\* `${pages.question}/${parsedQuestionDetails._id}`
QuestionPage(id) == <<"question", id>>

NoSubmission == [type |-> "none", pc |-> "idle"]

Submitting(type, id) == [type |-> type, id |-> id, pc |-> "pending"]

Submitted(call, outcome, pushed) ==
  [type |-> call.type, id |-> call.id, pc |-> "done", outcome |-> outcome,
   pushed |-> pushed]

\* What onSubmit pushes to the router once the awaited action has resolved:
\* for an edit the question's page inside the try, and for both types the
\* home page after the finally block.
PushedOnSuccess(type, id) ==
  IF type = "edit" THEN <<QuestionPage(id), Home>> ELSE <<Home>>

\* onSubmit up to its await: setIsSubmitting(true), then editQuestion or
\* createQuestion is called; id is the _id of the form's questionDetails.
onSubmit(type, id) ==
  /\ submission.pc = "idle"
  /\ Len(navigation) + 2 <= MaxNavigations
  /\ isSubmitting' = TRUE
  /\ submission' = Submitting(type, id)
  /\ UNCHANGED <<server, listVars, linkVars, navigation>>

\* The awaited action resolves: onSubmit runs to its end.
onSubmitResolved ==
  /\ submission.pc = "pending"
  /\ navigation' = navigation \o PushedOnSuccess(submission.type, submission.id)
  /\ isSubmitting' = FALSE
  /\ submission' = Submitted(submission, "ok",
                            PushedOnSuccess(submission.type, submission.id))
  /\ UNCHANGED <<server, listVars, linkVars>>

\* The awaited action throws: the inner catch returns, the finally block
\* runs.
onSubmitRejected ==
  /\ submission.pc = "pending"
  /\ isSubmitting' = FALSE
  /\ submission' = Submitted(submission, "error", <<>>)
  /\ UNCHANGED <<server, listVars, linkVars, navigation>>

\* The form is shown again, ready for another submission.
FormShown ==
  /\ submission.pc = "done"
  /\ submission' = NoSubmission
  /\ UNCHANGED <<server, listVars, linkVars, isSubmitting, navigation>>

\* ------------------------------------------------------ the client at start
InitClient ==
  /\ matching = <<>>
  /\ listing = NoListing
  /\ sidebarLinks = <<Home, Community, Profile>>
  /\ authUserId = NoUser
  /\ pathName = Home
  /\ rendered = NoRender
  /\ isSubmitting = FALSE
  /\ submission = NoSubmission
  /\ navigation = <<>>

\* --------------------------------------------------------------- history
\* Whether a call's flags say what the stored document says of its user.
FlagsMatch(slot, doc) ==
  /\ slot.hasUpVoted = (slot.userId \in doc.upvotes)
  /\ slot.hasDownVoted = (slot.userId \in doc.downvotes)

\* The step applied a store write of slot r (it did not throw).
Applied(r) ==
  slots[r].pc = "update" /\ slots'[r] # slots[r] /\ slots'[r].result # "error"

\* last: the vote applied last to a stored document: whose, which action,
\* whether its flags matched the document (fresh), whether its user was in
\* neither set (novote) and, in that case, the two sets before it; and how
\* it follows the vote before it: "same" when that one was a fresh vote of
\* the same user on the same document from no vote with the same action,
\* "other" when it was a fresh vote of the same user on the same document
\* with the other action.
RecordVote(r, coll) ==
  last' = IF Applied(r) /\ slots[r].id \in DOMAIN coll
          THEN LET doc == coll[slots[r].id]
                   fresh == FlagsMatch(slots[r], doc)
                   novote == fresh /\ ~slots[r].hasUpVoted /\ ~slots[r].hasDownVoted
                   again == /\ fresh
                            /\ last.target = slots[r].id
                            /\ last.userId = slots[r].userId
                            /\ last.fresh
               IN [target |-> slots[r].id, userId |-> slots[r].userId,
                   action |-> slots[r].action, fresh |-> fresh, novote |-> novote,
                   upvotes |-> IF novote THEN doc.upvotes ELSE {},
                   downvotes |-> IF novote THEN doc.downvotes ELSE {},
                   after |-> IF again /\ last.novote /\ last.action = slots[r].action
                             THEN "same"
                             ELSE IF again /\ last.action # slots[r].action
                             THEN "other" ELSE "none"]
          ELSE last

\* ------------------------------------------------- sequential vote calls
\* One caller at a time: a call starts when the one before it has returned.
\* The store holds one question and one answer to it, as createQuestion and
\* createAnswer leave them; q2 and a2 are ids no document has.
SeqSlot == "r1"

Init ==
  /\ questions = ("q1" :> [NewQuestion("t1") EXCEPT !.answers = {"a1"}])
  /\ answers = ("a1" :> NewAnswer("q1"))
  /\ tags = EmptyColl
  /\ used = {"q1", "a1"}
  /\ slots = [r \in Slots |-> Idle]
  /\ last = NoVote
  /\ base = <<questions, answers>>
  /\ order = <<>>
  /\ InitClient

\* No document of the collection has a voter.
Untouched(coll) ==
  \A id \in DOMAIN coll : coll[id].upvotes = {} /\ coll[id].downvotes = {}

\* No call on a document of the other collection is running.
NoneRunning(op) == \A r \in Slots : slots[r].op # op

\* The calls of one caller at a time, on the documents qids and aids, with
\* vote parameters drawn from params.  With oneKind the callers vote on the
\* documents of one collection at a time: on a question while no answer has
\* a voter, on an answer while no question has one (a vote writes the one
\* document its id names, so the votes on the two collections are
\* independent).
VoteNext(qids, aids, params, oneKind) ==
  \/ \E id \in qids, p \in params :
       /\ oneKind => Untouched(answers)
       /\ voteQuestion(SeqSlot, id, p) /\ UNCHANGED <<history, client>>
  \/ voteQuestionUpdate(SeqSlot) /\ RecordVote(SeqSlot, questions)
       /\ UNCHANGED <<base, order, client>>
  \/ \E id \in aids, p \in params :
       /\ oneKind => Untouched(questions)
       /\ voteAnswer(SeqSlot, id, p) /\ UNCHANGED <<history, client>>
  \/ voteAnswerUpdate(SeqSlot) /\ RecordVote(SeqSlot, answers)
       /\ UNCHANGED <<base, order, client>>
  \/ Return(SeqSlot) /\ UNCHANGED <<history, client>>

\* Callers that vote on the stored documents and never pass both flags true.
Next == VoteNext({"q1"}, {"a1"}, ValidVoteParams, TRUE)

Spec == Init /\ [][Next]_vars

\* Callers that pass any id and any flags, both true included.
NextAnyFlags == VoteNext(QIds, AIds, VoteParams, FALSE)

SpecAnyFlags == Init /\ [][NextAnyFlags]_vars

\* ------------------------------------------------- concurrent vote calls
\* Two callers: a call may start while the other one is running, and the
\* outcomes are taken once no call is running.  base is the store at that
\* moment; order lists the store writes applied since, each with whether the
\* other call was waiting for its own write at that moment.
RecordWrite(r) ==
  order' = IF Applied(r)
           THEN Append(order,
                  [op |-> slots[r].op, id |-> slots[r].id, query |-> slots[r].query,
                   overlap |-> \E x \in Slots \ {r} : slots[x].pc = "update"])
           ELSE order

\* The callers take the outcomes of their calls.
ReturnAll ==
  /\ \A r \in Slots : slots[r].pc \in {"idle", "done"}
  /\ \E r \in Slots : slots[r].pc = "done"
  /\ slots' = [r \in Slots |-> Idle]
  /\ base' = <<questions, answers>>
  /\ order' = <<>>
  /\ UNCHANGED <<store, last, client>>

NextConc ==
  \/ \E r \in Slots, p \in ValidVoteParams :
       /\ Untouched(answers) /\ NoneRunning("voteAnswer")
       /\ voteQuestion(r, "q1", p) /\ UNCHANGED <<history, client>>
  \/ \E r \in Slots :
       voteQuestionUpdate(r) /\ RecordWrite(r) /\ UNCHANGED <<last, base, client>>
  \/ \E r \in Slots, p \in ValidVoteParams :
       /\ Untouched(questions) /\ NoneRunning("voteQuestion")
       /\ voteAnswer(r, "a1", p) /\ UNCHANGED <<history, client>>
  \/ \E r \in Slots :
       voteAnswerUpdate(r) /\ RecordWrite(r) /\ UNCHANGED <<last, base, client>>
  \/ ReturnAll

SpecConc == Init /\ [][NextConc]_vars

\* ------------------------------------------------ votes among other calls
CrudSlot == "r1"
VoteSlot == "r2"
Pages == {1, 2}
Limits == {1}

\* The votes of one user whose client shows the document as it is stored.
PageParams(doc) == {p \in ValidVoteParams : p.userId = 1 /\ FlagsMatch(p, doc)}

\* An empty store.
InitCrud ==
  /\ questions = EmptyColl
  /\ answers = EmptyColl
  /\ tags = EmptyColl
  /\ used = {}
  /\ slots = [r \in Slots |-> Idle]
  /\ last = NoVote
  /\ base = <<questions, answers>>
  /\ order = <<>>
  /\ InitClient

\* History: the vote sets editQuestion read, when its save has written, and
\* whether the stored sets were still the ones read.
RecordEdit(r) ==
  last' = IF slots'[r].result = "ok"
          THEN [NoVote EXCEPT
                  !.target = slots[r].id,
                  !.action = "editQuestion",
                  !.fresh = /\ slots[r].question.upvotes = questions[slots[r].id].upvotes
                            /\ slots[r].question.downvotes = questions[slots[r].id].downvotes,
                  !.upvotes = slots[r].question.upvotes,
                  !.downvotes = slots[r].question.downvotes]
          ELSE last

\* One caller creates a question and answers to it, edits, deletes and lists
\* while another votes on the stored documents.
NextCrud ==
  \/ \E title \in Titles, tagList \in TagLists :
       /\ questions = EmptyColl
       /\ createQuestion(CrudSlot, title, tagList) /\ UNCHANGED <<history, client>>
  \/ createQuestionCreate(CrudSlot) /\ UNCHANGED <<history, client>>
  \/ createQuestionTag(CrudSlot) /\ UNCHANGED <<history, client>>
  \/ createQuestionSave(CrudSlot) /\ UNCHANGED <<history, client>>
  \/ \E id \in QIds, title \in Titles :
       editQuestion(CrudSlot, id, title) /\ UNCHANGED <<history, client>>
  \/ editQuestionFind(CrudSlot) /\ UNCHANGED <<history, client>>
  \/ editQuestionSave(CrudSlot) /\ RecordEdit(CrudSlot) /\ UNCHANGED <<base, order, client>>
  \/ \E id \in DOMAIN questions : createAnswer(CrudSlot, id) /\ UNCHANGED <<history, client>>
  \/ createAnswerCreate(CrudSlot) /\ UNCHANGED <<history, client>>
  \/ createAnswerPush(CrudSlot) /\ UNCHANGED <<history, client>>
  \/ \E id \in AIds : deleteAnswer(CrudSlot, id) /\ UNCHANGED <<history, client>>
  \/ deleteAnswerDeleteOne(CrudSlot) /\ UNCHANGED <<history, client>>
  \/ deleteAnswerPull(CrudSlot) /\ UNCHANGED <<history, client>>
  \/ deleteAnswerInteraction(CrudSlot) /\ UNCHANGED <<history, client>>
  \/ \E id \in QIds, page \in Pages, limit \in Limits :
       getQuestionAnswers(CrudSlot, id, page, limit) /\ UNCHANGED <<history, client>>
  \/ getQuestionAnswersFind(CrudSlot) /\ UNCHANGED <<history, client>>
  \/ getQuestionAnswersCount(CrudSlot) /\ UNCHANGED <<history, client>>
  \/ Return(CrudSlot) /\ last' = NoVote /\ UNCHANGED <<base, order, client>>
  \/ \E id \in DOMAIN questions : \E p \in PageParams(questions[id]) :
       voteQuestion(VoteSlot, id, p) /\ UNCHANGED <<history, client>>
  \/ voteQuestionUpdate(VoteSlot) /\ UNCHANGED <<history, client>>
  \/ \E id \in DOMAIN answers : \E p \in PageParams(answers[id]) :
       voteAnswer(VoteSlot, id, p) /\ UNCHANGED <<history, client>>
  \/ voteAnswerUpdate(VoteSlot) /\ UNCHANGED <<history, client>>
  \/ Return(VoteSlot) /\ UNCHANGED <<history, client>>

SpecCrud == InitCrud /\ [][NextCrud]_vars

\* ------------------------------------------- answers created and deleted
\* Callers create answers, delete answers and delete questions, their calls
\* overlapping.
NextRef ==
  \/ \E r \in Slots, id \in QIds : createAnswer(r, id) /\ UNCHANGED <<history, client>>
  \/ \E r \in Slots : createAnswerCreate(r) /\ UNCHANGED <<history, client>>
  \/ \E r \in Slots : createAnswerPush(r) /\ UNCHANGED <<history, client>>
  \/ \E r \in Slots, id \in AIds : deleteAnswer(r, id) /\ UNCHANGED <<history, client>>
  \/ \E r \in Slots : deleteAnswerDeleteOne(r) /\ UNCHANGED <<history, client>>
  \/ \E r \in Slots : deleteAnswerPull(r) /\ UNCHANGED <<history, client>>
  \/ \E r \in Slots : deleteAnswerInteraction(r) /\ UNCHANGED <<history, client>>
  \/ \E r \in Slots, id \in QIds : deleteQuestion(r, id) /\ UNCHANGED <<history, client>>
  \/ \E r \in Slots : deleteQuestionDeleteOne(r) /\ UNCHANGED <<history, client>>
  \/ \E r \in Slots : deleteQuestionDeleteMany(r) /\ UNCHANGED <<history, client>>
  \/ \E r \in Slots : deleteQuestionUsers(r) /\ UNCHANGED <<history, client>>
  \/ \E r \in Slots : deleteQuestionTags(r) /\ UNCHANGED <<history, client>>
  \/ \E r \in Slots : Return(r) /\ UNCHANGED <<history, client>>

SpecRef == Init /\ [][NextRef]_vars

\* ---------------------------------------------------- listings of a store
InitList ==
  /\ questions = EmptyColl
  /\ answers = EmptyColl
  /\ tags = EmptyColl
  /\ used = {}
  /\ slots = [r \in Slots |-> Idle]
  /\ last = NoVote
  /\ base = <<questions, answers>>
  /\ order = <<>>
  /\ matching \in {[i \in 1..n |-> i] : n \in 0..MaxDocs}
  /\ listing = NoListing
  /\ sidebarLinks = <<Home, Community, Profile>>
  /\ authUserId = NoUser
  /\ pathName = Home
  /\ rendered = NoRender
  /\ isSubmitting = FALSE
  /\ submission = NoSubmission
  /\ navigation = <<>>

\* Listing calls with page >= 1 and limit >= 1 over a store that does not
\* change.
NextList ==
  \/ \E page \in 1..MaxPage, limit \in 1..MaxLimit : ListQuestionAnswers(page, limit)
  \/ \E page \in 1..MaxPage, limit \in 1..MaxLimit : ListUserAnswers(page, limit)
  \/ \E mode \in Modes, page \in 1..MaxPage, limit \in 1..MaxLimit :
       ListQuestions(mode, page, limit)

SpecList == InitList /\ [][NextList]_vars

\* ------------------------------------------------- renders of the sidebar
\* The sidebar is rendered again and again in one session while users sign
\* in and out and the page changes.
NextLinks ==
  \/ \E userId \in AuthUsers : SignIn(userId)
  \/ SignOut
  \/ \E path \in Paths : GoTo(path)
  \/ LeftLinks

SpecLinks == Init /\ [][NextLinks]_vars

\* --------------------------------------------- submissions of the form
NextForm ==
  \/ \E type \in FormTypes, id \in QIds : onSubmit(type, id)
  \/ onSubmitResolved
  \/ onSubmitRejected
  \/ FormShown

SpecForm == Init /\ [][NextForm]_vars

\* ================================================================ claims
\* The collection a vote handler writes to, and the document of a call.
VotableColl(op) == IF op = "voteQuestion" THEN questions ELSE answers

\* Slot r is about to have a store write applied to an existing document.
Writes(r) ==
  /\ slots[r].pc = "update"
  /\ slots[r].id \in DOMAIN VotableColl(slots[r].op)

TargetDoc(r) == VotableColl(slots[r].op)[slots[r].id]

\* The same document after the step.
TargetDocNext(r) ==
  IF slots[r].op = "voteQuestion" THEN questions'[slots[r].id] ELSE answers'[slots[r].id]

LastDoc == IF last.target \in QIds THEN questions[last.target] ELSE answers[last.target]

\* C1: no user identifier is in both upvoters and downvoters of a votable,
\* after any sequence of votes with flags that are not both true.
C1_VoteSetsDisjoint ==
  /\ \A id \in DOMAIN questions : questions[id].upvotes \cap questions[id].downvotes = {}
  /\ \A id \in DOMAIN answers : answers[id].upvotes \cap answers[id].downvotes = {}

\* The sets the case table gives for a vote of userId on sets ups / downs.
C2_Expected(action, hasUp, hasDown, userId, ups, downs) ==
  IF action = "upvote" /\ hasUp /\ ~hasDown THEN <<ups \ {userId}, downs>>
  ELSE IF action = "upvote" /\ ~hasUp /\ hasDown
    THEN <<ups \cup {userId}, downs \ {userId}>>
  ELSE IF action = "upvote" /\ ~hasUp /\ ~hasDown THEN <<ups \cup {userId}, downs>>
  ELSE IF action = "downvote" /\ ~hasUp /\ hasDown THEN <<ups, downs \ {userId}>>
  ELSE IF action = "downvote" /\ hasUp /\ ~hasDown
    THEN <<ups \ {userId}, downs \cup {userId}>>
  ELSE <<ups, downs \cup {userId}>>

C2_Step(r) ==
  (Writes(r) /\ Applied(r) /\ ~(slots[r].hasUpVoted /\ slots[r].hasDownVoted)) =>
    /\ <<TargetDocNext(r).upvotes, TargetDocNext(r).downvotes>> =
         C2_Expected(slots[r].action, slots[r].hasUpVoted, slots[r].hasDownVoted,
                     slots[r].userId, TargetDoc(r).upvotes, TargetDoc(r).downvotes)
    /\ (/\ slots[r].action = "upvote"
        /\ slots[r].userId \notin TargetDoc(r).upvotes \cup TargetDoc(r).downvotes
        /\ FlagsMatch(slots[r], TargetDoc(r)))
       => /\ slots[r].userId \in TargetDocNext(r).upvotes
          /\ slots[r].userId \notin TargetDocNext(r).downvotes

C3_Step(r) ==
  (Writes(r) /\ Applied(r) /\ FlagsMatch(slots[r], TargetDoc(r))) =>
    /\ (/\ last.target = slots[r].id /\ last.userId = slots[r].userId
        /\ last.novote /\ last.action = slots[r].action)
       => <<TargetDocNext(r).upvotes, TargetDocNext(r).downvotes>> =
            <<last.upvotes, last.downvotes>>
    /\ (slots[r].action = "upvote" /\ slots[r].userId \in TargetDoc(r).upvotes)
       => slots[r].userId \notin TargetDocNext(r).upvotes \cup TargetDocNext(r).downvotes

C4_Step(r) ==
  (Writes(r) /\ Applied(r) /\ FlagsMatch(slots[r], TargetDoc(r))
     /\ slots[r].action = "downvote") =>
    /\ (/\ last.target = slots[r].id /\ last.userId = slots[r].userId
        /\ last.fresh /\ last.action = "upvote")
       => /\ slots[r].userId \in TargetDocNext(r).downvotes
          /\ slots[r].userId \notin TargetDocNext(r).upvotes
    /\ slots[r].userId \in TargetDoc(r).upvotes
       => /\ TargetDocNext(r).upvotes = TargetDoc(r).upvotes \ {slots[r].userId}
          /\ TargetDocNext(r).downvotes = TargetDoc(r).downvotes \cup {slots[r].userId}

\* C4: an upvote followed by a downvote of the same user, each with flags
\* read from the store, leaves the user in downvoters only; a downvote by a
\* user in upvoters moves that user and nobody else.
C4_SwitchMovesToDownvoters == [][\A r \in Slots : C4_Step(r)]_vars

\* C4's case: a downvote right after the same user's upvote was applied to
\* q1 while another user had a vote there.
C4_Witness ==
  /\ last.target = "q1" /\ last.after = "other" /\ last.action = "downvote"
  /\ last.userId \in questions["q1"].downvotes \ questions["q1"].upvotes
  /\ questions["q1"].upvotes # {}

C5_Step(r) ==
  (/\ slots[r].pc = "update"
   /\ slots[r].id \notin DOMAIN VotableColl(slots[r].op)
   /\ slots'[r].pc = "done")
  => slots'[r].result = "error"

\* C5: a vote whose target does not exist ends in an error for the caller,
\* never as if it had succeeded.
C5_MissingTargetIsError == [][\A r \in Slots : C5_Step(r)]_vars

\* C6: a vote call with both flags true is rejected before an update is
\* computed: no such call ever has a store write pending.
C6_BothFlagsRejected ==
  \A r \in Slots :
    slots[r].pc = "update" => ~(slots[r].hasUpVoted /\ slots[r].hasDownVoted)

C9_Step(r) ==
  (Writes(r) /\ Applied(r)) =>
    LET u == slots[r].userId
        gainsUp == u \notin TargetDoc(r).upvotes /\ u \in TargetDocNext(r).upvotes
        gainsDown == u \notin TargetDoc(r).downvotes /\ u \in TargetDocNext(r).downvotes
        losesUp == u \in TargetDoc(r).upvotes /\ u \notin TargetDocNext(r).upvotes
        losesDown == u \in TargetDoc(r).downvotes /\ u \notin TargetDocNext(r).downvotes
        q == slots[r].query
    IN /\ ~(gainsUp /\ gainsDown) /\ ~(losesUp /\ losesDown)
       /\ ~(q.upvotes = AddUser /\ q.downvotes = AddUser)
       /\ ~(q.upvotes = RemoveUser /\ q.downvotes = RemoveUser)

\* C9: a vote with valid flags adds its user to at most one of the two sets
\* and removes it from at most one, in the update it builds and in the store.
C9_AtMostOneGainOneLoss == [][\A r \in Slots : C9_Step(r)]_vars

\* C9's case: a vote that both removed its user from one set and added it to
\* the other was applied to a1.
C9_Witness ==
  /\ last.target = "a1" /\ last.fresh /\ ~last.novote /\ last.action = "upvote"
  /\ last.userId \in answers["a1"].upvotes \ answers["a1"].downvotes

ExactlyOne(userId, doc) == (userId \in doc.upvotes) # (userId \in doc.downvotes)

Switches(q) ==
  \/ q.upvotes = AddUser /\ q.downvotes = RemoveUser
  \/ q.upvotes = RemoveUser /\ q.downvotes = AddUser

C7_Step(r) ==
  (Writes(r) /\ Applied(r) /\ Switches(slots[r].query)) =>
    /\ slots'[r].pc = "done"
    /\ ExactlyOne(slots[r].userId, TargetDocNext(r))

\* C7: a vote that switches its user's direction reaches the store as one
\* step on both sets: the step that applies it ends the call's writing and
\* leaves the user in exactly one set, so no state in between, with the user
\* in both sets or in neither, exists for a concurrent reader to read.
C7_SwitchIsOneStoreStep == [][\A r \in Slots : C7_Step(r)]_vars

\* C7's case: a switching vote of a user who was in upvoters has been applied
\* to q1 while the other call was running.
C7_Witness ==
  /\ Len(order) = 1 /\ order[1].overlap /\ order[1].id = "q1"
  /\ order[1].query.upvotes = RemoveUser /\ order[1].query.downvotes = AddUser
  /\ order[1].query.user \in base[1]["q1"].upvotes
  /\ order[1].query.user \in questions["q1"].downvotes

\* What an update asks for one set, said of the set before and after it.
C8_Asked(op, userId, before, after) ==
  IF op = AddUser THEN userId \in after
  ELSE IF op = RemoveUser THEN userId \notin after
  ELSE (userId \in after) = (userId \in before)

C8_Sets(doc) == <<doc.upvotes, doc.downvotes>>

\* C8: when two calls of distinct users have written to the same votable
\* since their callers had no call running, the sets are those of the two
\* updates applied one after the other, and each user's membership is what
\* that user's update asked for.
C8_ConcurrentVotesBothApplied ==
  (/\ Len(order) = 2
   /\ order[1].op = order[2].op /\ order[1].id = order[2].id
   /\ order[1].query.user # order[2].query.user)
  => LET before == BaseDoc(order[1].id)
         now == VotableColl(order[1].op)[order[1].id]
     IN /\ \/ C8_Sets(now) =
                C8_Sets(UpdateDoc(UpdateDoc(before, order[1].query), order[2].query))
           \/ C8_Sets(now) =
                C8_Sets(UpdateDoc(UpdateDoc(before, order[2].query), order[1].query))
        /\ \A i \in 1..2 :
             /\ C8_Asked(order[i].query.upvotes, order[i].query.user,
                         before.upvotes, now.upvotes)
             /\ C8_Asked(order[i].query.downvotes, order[i].query.user,
                         before.downvotes, now.downvotes)

\* C8's case: two users voted on a1 at once (the second call was waiting for
\* its write when the first was applied) and both are among its voters.
C8_Witness ==
  /\ Len(order) = 2 /\ order[1].overlap
  /\ order[1].id = "a1" /\ order[2].id = "a1"
  /\ order[1].query.user # order[2].query.user
  /\ order[1].query.user \in answers["a1"].upvotes
  /\ order[2].query.user \in answers["a1"].downvotes

\* C10: the vote sets of a question or an answer are empty when it is
\* created, and afterwards only a vote call's store write on that very
\* document changes them: createQuestion's save, editQuestion's save,
\* createAnswer, deleteAnswer on another answer and the listing calls leave
\* the sets of every stored document as they were, whatever vote call runs
\* between their steps.
VoteWriteOn(op, id) ==
  \E r \in Slots :
    /\ slots[r].op = op /\ slots[r].pc = "update" /\ slots[r].id = id
    /\ slots'[r] # slots[r] /\ slots'[r].result # "error"

SameVoteSets(d, e) == d.upvotes = e.upvotes /\ d.downvotes = e.downvotes

NoVoters(d) == d.upvotes = {} /\ d.downvotes = {}

C10_Step ==
  /\ \A id \in DOMAIN questions \cap DOMAIN questions' :
       SameVoteSets(questions[id], questions'[id]) \/ VoteWriteOn("voteQuestion", id)
  /\ \A id \in DOMAIN answers \cap DOMAIN answers' :
       SameVoteSets(answers[id], answers'[id]) \/ VoteWriteOn("voteAnswer", id)
  /\ \A id \in DOMAIN questions' \ DOMAIN questions : NoVoters(questions'[id])
  /\ \A id \in DOMAIN answers' \ DOMAIN answers : NoVoters(answers'[id])

C10_OnlyVotesChangeVoteSets == [][C10_Step]_vars

\* An edit has been saved over a document whose vote sets had changed since
\* the edit read it, and the stored sets are not the ones the edit read.
C10_Witness ==
  /\ slots[CrudSlot] = Finished("editQuestion", "ok", "none")
  /\ last.action = "editQuestion" /\ ~last.fresh
  /\ last.target \in DOMAIN questions
  /\ ~ (/\ questions[last.target].upvotes = last.upvotes
        /\ questions[last.target].downvotes = last.downvotes)

\* C11: once every createAnswer, deleteAnswer and deleteQuestion call has
\* finished, every stored answer's question is stored and lists that answer,
\* and every id a question lists is a stored answer.
AllFinished == \A r \in Slots : slots[r].pc \in {"idle", "done"}

AnswersConsistent ==
  /\ \A a \in DOMAIN answers :
       /\ answers[a].question \in DOMAIN questions
       /\ a \in questions[answers[a].question].answers
  /\ \A q \in DOMAIN questions : questions[q].answers \subseteq DOMAIN answers

C11_AnswersConsistentWhenFinished == AllFinished => AnswersConsistent

\* C12: over an unchanging store, for every listing call, page >= 1 and
\* limit >= 1, the returned isNext is true exactly when the call for
\* page + 1 with the same parameters returns at least one item that the
\* current page did not return.
NextPageHasNew(l) ==
  \E item \in Range(ListResult(l.op, matching, l.page + 1, l.limit).items) :
    item \notin Range(l.items)

C12_IsNextIffNextPageHasNew ==
  listing.result = "ok" => (listing.isNext <=> NextPageHasNew(listing))

\* C13: in what a render of LeftLinks returns, the profile link is present
\* exactly when a user is signed in at that render, and its route is then
\* the profile route followed once by that user's id.
ProfileLinks(links) ==
  {i \in 1..Len(links) : Len(links[i].route) > 0 /\ links[i].route[1] = "profile"}

C13_ProfileLinkIsCurrentUsers ==
  rendered.links # <<>> =>
    /\ (ProfileLinks(rendered.links) # {}) <=> (rendered.forUser # NoUser)
    /\ \A i \in ProfileLinks(rendered.links) :
         rendered.links[i].route = Profile \o <<rendered.forUser>>

\* C14: for every submission of the question form, isSubmitting is true
\* while the action is pending and false once onSubmit has ended; a failed
\* action pushes no route; a successful create pushes the home page only;
\* and the last route a successful edit pushes is the edited question's page.
C14_Pending == submission.pc = "pending" => isSubmitting

C14_Ended ==
  submission.pc = "done" =>
    /\ ~isSubmitting
    /\ submission.outcome = "error" => submission.pushed = <<>>
    /\ (submission.outcome = "ok" /\ submission.type = "create")
         => submission.pushed = <<Home>>
    /\ (submission.outcome = "ok" /\ submission.type = "edit")
         => /\ submission.pushed # <<>>
            /\ submission.pushed[Len(submission.pushed)] = QuestionPage(submission.id)

C14_SubmitResetsAndNavigates == C14_Pending /\ C14_Ended

====
